---------------------------- MODULE Spec2Model ----------------------------
(***************************************************************************)
(* A state-machine model of danish-stt.py: the pause-based speaker         *)
(* attribution (detect_speaker_changes), the content-marker normalisation  *)
(* (add_content_markers), the timestamp formatters (format_timestamp,      *)
(* format_duration) and the statistics part of main.                       *)
(*                                                                         *)
(* Numbers.  Python floats are modelled by exact fixed-point integers:     *)
(* times and log-probabilities are counted in tenths (1.2 s is 12, -0.5 is *)
(* -5).  A quotient is kept as an exact fraction [num, den] until the code *)
(* rounds it.  Strings are sequences of one-character strings.             *)
(***************************************************************************)
EXTENDS Integers, Sequences, FiniteSets, TLC

VARIABLES
    pc,                       \* position of the running call
    segments,                 \* result["segments"] / the segments argument
    silence_threshold,        \* detect_speaker_changes parameter
    min_speaker_time,         \* detect_speaker_changes parameter
    i,                        \* loop index of detect_speaker_changes (0-based)
    speakers,                 \* labels appended so far
    current_speaker,
    last_speaker_change_time,
    text,                     \* add_content_markers argument
    marked,                   \* add_content_markers(text)
    remarked,                 \* add_content_markers(marked)
    seconds,                  \* format_timestamp / format_duration argument
    timestamp,                \* format_timestamp(seconds)
    duration,                 \* format_duration(seconds)
    audio_duration,           \* main: result.get('duration', 0)
    stats,                    \* main: the locals of lines 342-367
    metadata,                 \* main: the metadata dict
    transcript_segments,      \* main: the transcript records
    console_lines,            \* main: transcript lines printed
    file_lines,               \* main: transcript lines of the text file
    doc_paragraphs,           \* transcript paragraphs of the Word document
    doc_error,                \* exception caught around the Word document
    summary,                  \* main: the locals of lines 492-509
    error                     \* exception that ended main, if any

detectVars == <<segments, silence_threshold, min_speaker_time, i, speakers,
                current_speaker, last_speaker_change_time>>

textVars == <<text, marked, remarked>>

fmtVars == <<seconds, timestamp, duration>>

mainVars == <<audio_duration, stats, metadata, transcript_segments,
              console_lines, file_lines, doc_paragraphs, doc_error, summary,
              error>>

\* What main writes after the transcript records are built.
outputVars == <<console_lines, file_lines, doc_paragraphs, doc_error, summary>>

vars == <<pc, detectVars, textVars, fmtVars, mainVars>>

\* What the steps of one function leave alone.
notDetect == <<textVars, fmtVars, mainVars>>
notText == <<detectVars, fmtVars, mainVars>>
notFmt == <<detectVars, textVars, mainVars>>

---------------------------------------------------------------------------
(* Bounds of the model *)

MaxSegs == 3        \* longest segment sequence drawn
MaxTime == 4        \* largest start/end drawn for detect_speaker_changes

---------------------------------------------------------------------------
(* Segments *)

None == "None"

\* The avg_logprob of a segment: <<v>> when the key is present, Absent when
\* it is not.
Absent == <<>>
Present(v) == <<v>>

Seg(s, e, t, c) == [start |-> s, end |-> e, text |-> t, avg_logprob |-> c]

\* max() and min() of a non-empty collection.
SetMax(S) == CHOOSE x \in S : \A y \in S : y <= x
SetMin(S) == CHOOSE x \in S : \A y \in S : x <= y

\* The sequences over S of length at most n.
RECURSIVE SeqsUpTo(_, _)
SeqsUpTo(S, n) ==
    IF n = 0 THEN {<<>>}
    ELSE LET shorter == SeqsUpTo(S, n - 1)
         IN  shorter \cup {Append(q, x) : q \in {r \in shorter : Len(r) = n - 1}, x \in S}

---------------------------------------------------------------------------
(* detect_speaker_changes *)

INTERVIEWER == "INTERVIEWER"
PARTICIPANT == "PARTICIPANT"

OtherSpeaker(s) == IF s = INTERVIEWER THEN PARTICIPANT ELSE INTERVIEWER

\* Mutant of Gap: the operands of the subtraction swapped.
GapReversed(current_start, prev_end) == prev_end - current_start

Gap(current_start, prev_end) == current_start - prev_end

TimeSinceLastChange(current_start, last_change) == current_start - last_change

\* Mutant of SwitchCondition: the minimum-speaker-time guard dropped.
SwitchConditionNoCooldown(gap, since, threshold, min_time) ==
    gap > threshold

\* Mutant of SwitchCondition: both comparisons inclusive.
SwitchConditionInclusive(gap, since, threshold, min_time) ==
    gap >= threshold /\ since >= min_time

SwitchCondition(gap, since, threshold, min_time) ==
    gap > threshold /\ since > min_time

DetectEnter ==
    /\ pc = "detect_call"
    /\ speakers' = <<>>
    /\ current_speaker' = INTERVIEWER
    /\ last_speaker_change_time' = 0
    /\ i' = 0
    /\ pc' = "detect_loop"
    /\ UNCHANGED <<segments, silence_threshold, min_speaker_time>>
    /\ UNCHANGED notDetect

\* Mutant of DetectFirst: the first segment gets no label.
DetectFirstNoAppend ==
    /\ pc = "detect_loop"
    /\ i < Len(segments)
    /\ i = 0
    /\ i' = i + 1
    /\ UNCHANGED <<pc, segments, silence_threshold, min_speaker_time, speakers,
                   current_speaker, last_speaker_change_time>>
    /\ UNCHANGED notDetect

DetectFirst ==
    /\ pc = "detect_loop"
    /\ i < Len(segments)
    /\ i = 0
    /\ speakers' = Append(speakers, current_speaker)
    /\ i' = i + 1
    /\ UNCHANGED <<pc, segments, silence_threshold, min_speaker_time,
                   current_speaker, last_speaker_change_time>>
    /\ UNCHANGED notDetect

DetectNext ==
    /\ pc = "detect_loop"
    /\ i < Len(segments)
    /\ i # 0
    /\ LET prev_end == segments[i].end
           current_start == segments[i + 1].start
           gap == Gap(current_start, prev_end)
           time_since_last_change ==
               TimeSinceLastChange(current_start, last_speaker_change_time)
           switch == SwitchCondition(gap, time_since_last_change,
                                     silence_threshold, min_speaker_time)
           now_speaker == IF switch THEN OtherSpeaker(current_speaker)
                          ELSE current_speaker
       IN  /\ current_speaker' = now_speaker
           /\ last_speaker_change_time' =
                  IF switch THEN current_start ELSE last_speaker_change_time
           /\ speakers' = Append(speakers, now_speaker)
    /\ i' = i + 1
    /\ UNCHANGED <<pc, segments, silence_threshold, min_speaker_time>>
    /\ UNCHANGED notDetect

DetectReturn ==
    /\ pc = "detect_loop"
    /\ i >= Len(segments)
    /\ pc' = "detect_returned"
    /\ UNCHANGED detectVars
    /\ UNCHANGED notDetect

\* The variables of the functions that are not running.
IdleDetect ==
    /\ segments = <<>>
    /\ silence_threshold = None
    /\ min_speaker_time = None
    /\ i = 0
    /\ speakers = <<>>
    /\ current_speaker = None
    /\ last_speaker_change_time = None

IdleText == text = <<>> /\ marked = None /\ remarked = None

IdleFmt == seconds = 0 /\ timestamp = None /\ duration = None

IdleMain ==
    /\ audio_duration = 0
    /\ stats = None
    /\ metadata = None
    /\ transcript_segments = None
    /\ console_lines = <<>>
    /\ file_lines = <<>>
    /\ doc_paragraphs = <<>>
    /\ doc_error = None
    /\ summary = None
    /\ error = None

---------------------------------------------------------------------------
(* A call of detect_speaker_changes with caller-supplied parameters *)

DetectTimes == 0 .. MaxTime

\* Each segment has start <= end; consecutive segments may overlap or be
\* out of order.
DetectSegments ==
    {g \in {Seg(s, e, <<"a">>, Absent) : s \in DetectTimes, e \in DetectTimes} :
        g.start <= g.end}

\* Parameter values, in the unit of the times: a threshold below some negative
\* gap and one above some positive gap.
SilenceThresholds == {-2, 1}
MinSpeakerTimes == {1}

InitDetect ==
    /\ pc = "detect_call"
    /\ segments \in SeqsUpTo(DetectSegments, MaxSegs)
    /\ silence_threshold \in SilenceThresholds
    /\ min_speaker_time \in MinSpeakerTimes
    /\ i = 0
    /\ speakers = <<>>
    /\ current_speaker = None
    /\ last_speaker_change_time = None
    /\ IdleText
    /\ IdleFmt
    /\ IdleMain

NextDetect ==
    \/ DetectEnter
    \/ DetectFirst
    \/ DetectNext
    \/ DetectReturn

SpecDetect == InitDetect /\ [][NextDetect]_vars

---------------------------------------------------------------------------
(* Properties of detect_speaker_changes *)

\* Position k (1-based) carries a speaker flip: its label differs from the
\* label before it.
FlipAt(k) == k \in 2 .. Len(speakers) /\ speakers[k] # speakers[k - 1]

FlipsBefore(k) == {j \in 2 .. (k - 1) : FlipAt(j)}

GapAt(k) == segments[k].start - segments[k - 1].end

\* C1: between two consecutive speaker flips the start times of the
\* triggering segments differ by strictly more than min_speaker_time, and
\* the first flip is triggered by a segment whose start is strictly greater
\* than min_speaker_time.
C1_NoFlipTooSoon ==
    \A k \in 2 .. Len(speakers) :
        FlipAt(k) =>
            IF FlipsBefore(k) = {}
            THEN segments[k].start > min_speaker_time
            ELSE segments[k].start - segments[SetMax(FlipsBefore(k))].start
                     > min_speaker_time

C1_Witness ==
    /\ pc = "detect_returned"
    /\ min_speaker_time > 0
    /\ \E j, k \in 2 .. Len(speakers) : j < k /\ FlipAt(j) /\ FlipAt(k)

\* C2: detect_speaker_changes returns exactly one label per segment, in
\* order, every label is INTERVIEWER or PARTICIPANT, and the first label is
\* INTERVIEWER.
C2_OneLabelPerSegment ==
    /\ pc = "detect_loop" => Len(speakers) = i
    /\ pc = "detect_returned" =>
           /\ Len(speakers) = Len(segments)
           /\ \A k \in 1 .. Len(speakers) :
                  speakers[k] \in {INTERVIEWER, PARTICIPANT}
           /\ Len(segments) >= 1 => speakers[1] = INTERVIEWER

C2_Witness ==
    /\ pc = "detect_returned"
    /\ Len(segments) = MaxSegs
    /\ Len(speakers) = MaxSegs
    /\ \E k \in 1 .. Len(speakers) : speakers[k] = PARTICIPANT

\* C7 as stated: a segment whose gap to its predecessor is negative never
\* triggers a flip, whatever silence_threshold the caller supplies.
C7_NegativeGapNeverFlips ==
    \A k \in 2 .. Len(speakers) : GapAt(k) < 0 => speakers[k] = speakers[k - 1]

\* C7 amended: when silence_threshold is not negative, a segment whose gap
\* to its predecessor is negative never triggers a flip.
C7_NegativeGapNeverFlipsNonNegThreshold ==
    silence_threshold >= 0 => C7_NegativeGapNeverFlips

C7_Witness ==
    /\ pc = "detect_returned"
    /\ silence_threshold >= 0
    /\ \E k \in 2 .. Len(speakers) :
           /\ GapAt(k) < 0
           /\ ~FlipAt(k)
           /\ FlipsBefore(k) = {}
           /\ segments[k].start > min_speaker_time

\* C10: detect_speaker_changes is the two-state machine: it starts from
\* (INTERVIEWER, 0); the first segment gets the current speaker; at every
\* later segment it flips iff gap > silence_threshold and
\* start - last_change_time > min_speaker_time, a flip sets last_change_time
\* to that start, a non-flip leaves both alone, and the label appended is the
\* speaker after the step.  With no gap above silence_threshold every label
\* is INTERVIEWER.
C10_Step ==
    /\ pc = "detect_call" =>
           /\ current_speaker' = INTERVIEWER
           /\ last_speaker_change_time' = 0
           /\ speakers' = <<>>
    /\ pc = "detect_loop" /\ pc' = "detect_loop" =>
           LET k == i + 1
               cond == /\ segments[k].start - segments[k - 1].end
                              > silence_threshold
                       /\ segments[k].start - last_speaker_change_time
                              > min_speaker_time
           IN  /\ i' = k
               /\ speakers' = Append(speakers, current_speaker')
               /\ IF k > 1 /\ cond
                  THEN /\ current_speaker # current_speaker'
                       /\ current_speaker' \in {INTERVIEWER, PARTICIPANT}
                       /\ last_speaker_change_time' = segments[k].start
                  ELSE /\ current_speaker' = current_speaker
                       /\ last_speaker_change_time' = last_speaker_change_time
    /\ pc = "detect_loop" /\ pc' = "detect_returned" =>
           /\ i = Len(segments)
           /\ speakers' = speakers

C10_NoLongGapAllInterviewer ==
    pc = "detect_returned"
        /\ (\A k \in 2 .. Len(segments) : GapAt(k) <= silence_threshold)
        => \A k \in 1 .. Len(speakers) : speakers[k] = INTERVIEWER

C10_TwoStateMachine ==
    /\ [][C10_Step]_vars
    /\ [](C10_NoLongGapAllInterviewer)

C10_Witness ==
    /\ pc = "detect_returned"
    /\ \E k \in 2 .. Len(speakers) : FlipAt(k)
    /\ \E k \in 2 .. Len(speakers) :
           ~FlipAt(k) /\ GapAt(k) > silence_threshold

---------------------------------------------------------------------------
(* Strings: sequences of one-character strings, with the str methods used *)

Whitespace == {" ", "\t"}

RECURSIVE LStrip(_)
LStrip(s) ==
    IF s = <<>> THEN s
    ELSE IF Head(s) \in Whitespace THEN LStrip(Tail(s)) ELSE s

RECURSIVE RStrip(_)
RStrip(s) ==
    IF s = <<>> THEN s
    ELSE IF s[Len(s)] \in Whitespace THEN RStrip(SubSeq(s, 1, Len(s) - 1)) ELSE s

\* str.strip(): leading and trailing whitespace removed.
Strip(s) == RStrip(LStrip(s))

StartsWith(s, prefix) ==
    Len(s) >= Len(prefix) /\ SubSeq(s, 1, Len(prefix)) = prefix

\* str.replace(old, new): the non-overlapping occurrences of old, found
\* left to right, each replaced by new.
RECURSIVE Replace(_, _, _)
Replace(s, old, new) ==
    IF s = <<>> THEN <<>>
    ELSE IF StartsWith(s, old)
         THEN new \o Replace(SubSeq(s, Len(old) + 1, Len(s)), old, new)
         ELSE <<Head(s)>> \o Replace(Tail(s), old, new)

---------------------------------------------------------------------------
(* add_content_markers *)

UNCLEAR == <<"[", "U", "N", "C", "L", "E", "A", "R", "]">>
PAUSE == <<"[", "P", "A", "U", "S", "E", "]">>
Ellipsis == <<".", ".", ".">>
TwoSpaces == <<" ", " ">>
OneSpace == <<" ">>

MinClearLength == 3

\* Mutant of add_content_markers: the length test made on the raw text,
\* leading and trailing whitespace included.
add_content_markers_RawLength(t) ==
    IF Len(t) < MinClearLength THEN UNCLEAR
    ELSE Strip(Replace(Replace(t, Ellipsis, PAUSE), TwoSpaces, OneSpace))

\* Mutant of add_content_markers: the final strip() forgotten.
add_content_markers_NoFinalStrip(t) ==
    IF Len(Strip(t)) < MinClearLength THEN UNCLEAR
    ELSE Replace(Replace(t, Ellipsis, PAUSE), TwoSpaces, OneSpace)

add_content_markers(t) ==
    IF Len(Strip(t)) < MinClearLength THEN UNCLEAR
    ELSE LET markers1 == Replace(t, Ellipsis, PAUSE)
             markers2 == Replace(markers1, TwoSpaces, OneSpace)
         IN  Strip(markers2)

MarkContent ==
    /\ pc = "markers_call"
    /\ marked' = add_content_markers(text)
    /\ pc' = "markers_returned"
    /\ UNCHANGED <<text, remarked>>
    /\ UNCHANGED notText

\* The function applied to its own result.
MarkAgain ==
    /\ pc = "markers_returned"
    /\ remarked' = add_content_markers(marked)
    /\ pc' = "markers_reapplied"
    /\ UNCHANGED <<text, marked>>
    /\ UNCHANGED notText

---------------------------------------------------------------------------
(* Calls of add_content_markers on arbitrary short texts *)

MaxTextLen == 6     \* longest raw text drawn

TextAlphabet == {"a", " ", ".", "\t"}

InitText ==
    /\ pc = "markers_call"
    /\ text \in SeqsUpTo(TextAlphabet, MaxTextLen)
    /\ marked = None
    /\ remarked = None
    /\ IdleDetect
    /\ IdleFmt
    /\ IdleMain

NextText ==
    \/ MarkContent
    \/ MarkAgain

SpecText == InitText /\ [][NextText]_vars

---------------------------------------------------------------------------
(* Properties of add_content_markers *)

\* Positions of t holding character c.
PositionsOf(t, c) == {p \in 1 .. Len(t) : t[p] = c}

\* Positions of t that are not whitespace.
InkPositions(t) == {p \in 1 .. Len(t) : t[p] \notin Whitespace}

\* Length of t without its leading and trailing whitespace, and the
\* positions that survive.
CorePositions(t) ==
    IF InkPositions(t) = {} THEN {}
    ELSE SetMin(InkPositions(t)) .. SetMax(InkPositions(t))

\* Offset of position p inside the maximal run of equal characters it is in.
RunOffset(t, p) ==
    p - (CHOOSE q \in 1 .. p :
            /\ \A r \in q .. p : t[r] = t[p]
            /\ q = 1 \/ t[q - 1] # t[p])

RunLength(t, p) ==
    Cardinality({q \in 1 .. Len(t) :
                    \A r \in (IF q < p THEN q ELSE p) .. (IF q < p THEN p ELSE q) :
                        t[r] = t[p]})

HasSubSeq(t, u) ==
    \E p \in 1 .. (Len(t) - Len(u) + 1) : SubSeq(t, p, p + Len(u) - 1) = u

\* C6 as stated: add_content_markers(add_content_markers(x)) equals
\* add_content_markers(x) for every text x.
C6_Idempotent ==
    pc = "markers_reapplied" => remarked = marked

\* C6 amended: add_content_markers is idempotent on every text that, with
\* its leading and trailing whitespace removed, holds no run of three or
\* more consecutive spaces.
C6_IdempotentWithoutLongSpaceRuns ==
    pc = "markers_reapplied"
        /\ (\A p \in CorePositions(text) : text[p] = " " => RunLength(text, p) <= 2)
        => remarked = marked

C6_Witness ==
    /\ pc = "markers_reapplied"
    /\ HasSubSeq(text, TwoSpaces)
    /\ HasSubSeq(text, Ellipsis)
    /\ \A p \in CorePositions(text) : text[p] = " " => RunLength(text, p) <= 2
    /\ marked # UNCLEAR
    /\ marked # text
    /\ remarked = marked

\* C8 amended: the result is exactly [UNCLEAR] when the text without
\* leading and trailing whitespace has fewer than 3 characters, the test
\* being made on the raw text; otherwise the result has no leading or
\* trailing whitespace and no '...', keeps the other characters, holds one
\* [PAUSE] per complete group of three dots of a run, and one space per pair
\* (or left-over single) of spaces of a run inside the text.
C8_MarkersResult ==
    pc \in {"markers_returned", "markers_reapplied"} =>
        IF Cardinality(CorePositions(text)) < 3
        THEN marked = UNCLEAR
        ELSE /\ marked # <<>>
             /\ marked[1] \notin Whitespace
             /\ marked[Len(marked)] \notin Whitespace
             /\ ~HasSubSeq(marked, Ellipsis)
             /\ Cardinality(PositionsOf(marked, "a"))
                    = Cardinality(PositionsOf(text, "a"))
             /\ Cardinality(PositionsOf(marked, "\t"))
                    = Cardinality(PositionsOf(text, "\t") \cap CorePositions(text))
             /\ Cardinality(PositionsOf(marked, "["))
                    = Cardinality({p \in PositionsOf(text, ".") :
                                      RunOffset(text, p) % 3 = 2})
             /\ Cardinality(PositionsOf(marked, "."))
                    = Cardinality({p \in PositionsOf(text, ".") :
                                      RunOffset(text, p)
                                          >= 3 * (RunLength(text, p) \div 3)})
             /\ Cardinality(PositionsOf(marked, " "))
                    = Cardinality({p \in PositionsOf(text, " ")
                                           \cap CorePositions(text) :
                                      RunOffset(text, p) % 2 = 0})

ScenarioC == <<" ", " ", ".", ".", ".">>

\* C8 as stated: the above, and the text "  ..." is not turned into [PAUSE]
\* but into [UNCLEAR].
C8_AsStated ==
    /\ C8_MarkersResult
    /\ pc = "markers_returned" /\ text = ScenarioC =>
           marked = UNCLEAR /\ marked # PAUSE

C8_Witness ==
    /\ pc = "markers_returned"
    /\ text = ScenarioC
    /\ Cardinality(CorePositions(text)) = 3
    /\ marked = PAUSE

---------------------------------------------------------------------------
(* format_timestamp and format_duration *)

\* A float number of seconds is modelled by an integer number of ticks.
TicksPerSecond == 10

DigitChars == <<"0", "1", "2", "3", "4", "5", "6", "7", "8", "9">>

\* str(n) for a natural number n.
RECURSIVE Decimal(_)
Decimal(n) ==
    IF n < 10 THEN <<DigitChars[n + 1]>>
    ELSE Decimal(n \div 10) \o <<DigitChars[(n % 10) + 1]>>

\* f"{n:02d}": zero-padded to a minimum width of 2, sign included.
Format02d(n) ==
    IF n < 0 THEN <<"-">> \o Decimal(-n)
    ELSE IF n < 10 THEN <<"0">> \o Decimal(n)
    ELSE Decimal(n)

\* x // d and x % d for a float x of `ticks` ticks and a whole number d > 0
\* of seconds: the quotient is a whole number, the remainder is in ticks and
\* never negative.
FloorDivSeconds(ticks, d) == ticks \div (d * TicksPerSecond)
ModSeconds(ticks, d) == ticks % (d * TicksPerSecond)

\* Mutant of IntOf: rounding to the nearest whole number.
IntOfRounded(ticks) == (ticks + (TicksPerSecond \div 2)) \div TicksPerSecond

\* int(x): truncation toward zero.
IntOf(ticks) ==
    IF ticks >= 0 THEN ticks \div TicksPerSecond
    ELSE -((-ticks) \div TicksPerSecond)

format_timestamp(ticks) ==
    LET minutes == FloorDivSeconds(ticks, 60)
        secs == IntOf(ModSeconds(ticks, 60))
    IN  Format02d(minutes) \o <<":">> \o Format02d(secs)

format_duration(ticks) ==
    LET hours == FloorDivSeconds(ticks, 3600)
        minutes == FloorDivSeconds(ModSeconds(ticks, 3600), 60)
        secs == IntOf(ModSeconds(ticks, 60))
    IN  IF hours > 0
        THEN Format02d(hours) \o <<":">> \o Format02d(minutes)
                 \o <<":">> \o Format02d(secs)
        ELSE Format02d(minutes) \o <<":">> \o Format02d(secs)

FormatTimestamp ==
    /\ pc = "format_call"
    /\ timestamp' = format_timestamp(seconds)
    /\ pc' = "format_timestamp_returned"
    /\ UNCHANGED <<seconds, duration>>
    /\ UNCHANGED notFmt

FormatDuration ==
    /\ pc = "format_timestamp_returned"
    /\ duration' = format_duration(seconds)
    /\ pc' = "format_duration_returned"
    /\ UNCHANGED <<seconds, timestamp>>
    /\ UNCHANGED notFmt

---------------------------------------------------------------------------
(* Calls of the formatters on non-negative numbers of seconds *)

MaxFormatSeconds == 6100    \* largest number of seconds drawn

InitFormat ==
    /\ pc = "format_call"
    /\ seconds \in 0 .. (MaxFormatSeconds * TicksPerSecond)
    /\ timestamp = None
    /\ duration = None
    /\ IdleDetect
    /\ IdleText
    /\ IdleMain

NextFormat ==
    \/ FormatTimestamp
    \/ FormatDuration

SpecFormat == InitFormat /\ [][NextFormat]_vars

---------------------------------------------------------------------------
(* Properties of the formatters *)

ColonPositions(str) == PositionsOf(str, ":")

\* The colon-separated fields of str, left to right.
RECURSIVE Fields(_)
Fields(str) ==
    IF ColonPositions(str) = {} THEN <<str>>
    ELSE LET c == SetMin(ColonPositions(str))
         IN  <<SubSeq(str, 1, c - 1)>> \o Fields(SubSeq(str, c + 1, Len(str)))

IsDigits(f) ==
    f # <<>> /\ \A p \in 1 .. Len(f) : \E d \in 1 .. 10 : f[p] = DigitChars[d]

DigitValue(ch) == (CHOOSE d \in 1 .. 10 : DigitChars[d] = ch) - 1

RECURSIVE NumberOf(_)
NumberOf(f) ==
    IF f = <<>> THEN 0
    ELSE 10 * NumberOf(SubSeq(f, 1, Len(f) - 1)) + DigitValue(f[Len(f)])

\* v = floor(ticks / TicksPerSecond / d)
IsFloorOf(v, ticks, d) ==
    /\ v * d * TicksPerSecond <= ticks
    /\ ticks < (v + 1) * d * TicksPerSecond

\* A field of at least two digits, with a leading zero only to reach two.
PaddedToTwo(f) == IsDigits(f) /\ Len(f) >= 2 /\ (Len(f) > 2 => f[1] # "0")

TwoDigitsBelow60(f) == IsDigits(f) /\ Len(f) = 2 /\ NumberOf(f) \in 0 .. 59

TimestampShape(str, ticks) ==
    LET f == Fields(str)
    IN  /\ Len(f) = 2
        /\ PaddedToTwo(f[1])
        /\ IsFloorOf(NumberOf(f[1]), ticks, 60)
        /\ TwoDigitsBelow60(f[2])
        /\ IsFloorOf(60 * NumberOf(f[1]) + NumberOf(f[2]), ticks, 1)

DurationShape(str, ticks) ==
    LET f == Fields(str)
    IN  /\ Len(f) = 3
        /\ PaddedToTwo(f[1])
        /\ NumberOf(f[1]) > 0
        /\ IsFloorOf(NumberOf(f[1]), ticks, 3600)
        /\ TwoDigitsBelow60(f[2])
        /\ IsFloorOf(60 * NumberOf(f[1]) + NumberOf(f[2]), ticks, 60)
        /\ TwoDigitsBelow60(f[3])
        /\ IsFloorOf(3600 * NumberOf(f[1]) + 60 * NumberOf(f[2]) + NumberOf(f[3]),
                     ticks, 1)

\* C9 amended: for s >= 0, format_timestamp(s) is MM:SS with
\* MM = floor(s / 60) zero-padded to at least two digits (exactly two when
\* s < 6000, more from 100 minutes on) and SS = floor(s mod 60) in 00..59,
\* exactly two digits; format_duration(s) equals format_timestamp(s) when
\* s < 3600 and otherwise is HH:MM:SS with HH = floor(s / 3600) zero-padded
\* to at least two digits and MM, SS in 00..59, exactly two digits each.
C9_FormatShape ==
    /\ pc \in {"format_timestamp_returned", "format_duration_returned"} =>
           /\ TimestampShape(timestamp, seconds)
           /\ Len(Fields(timestamp)[1]) = 2 <=> seconds < 6000 * TicksPerSecond
    /\ pc = "format_duration_returned" =>
           IF seconds < 3600 * TicksPerSecond
           THEN duration = timestamp
           ELSE DurationShape(duration, seconds)

\* C9 as stated: the above with every component of format_timestamp(s)
\* exactly two digits.
C9_AsStated ==
    pc \in {"format_timestamp_returned", "format_duration_returned"} =>
        /\ TimestampShape(timestamp, seconds)
        /\ Len(Fields(timestamp)[1]) = 2
        /\ Len(Fields(timestamp)[2]) = 2

C9_Witness ==
    /\ pc = "format_duration_returned"
    /\ seconds = 6000 * TicksPerSecond + 59 * TicksPerSecond + TicksPerSecond - 1
    /\ timestamp = <<"1", "0", "0", ":", "5", "9">>
    /\ duration = <<"0", "1", ":", "4", "0", ":", "5", "9">>

---------------------------------------------------------------------------
(* main: the statistics of lines 338-367 *)

\* An exact quotient num / den, den > 0.
Frac(n, d) == [num |-> n, den |-> d]

RECURSIVE SumSeq(_)
SumSeq(q) == IF q = <<>> THEN 0 ELSE Head(q) + SumSeq(Tail(q))

Range(q) == {q[k] : k \in 1 .. Len(q)}

\* len(text.split()): the number of maximal runs of non-whitespace.
WordCount(t) ==
    Cardinality({p \in 1 .. Len(t) :
                    /\ t[p] \notin Whitespace
                    /\ p = 1 \/ t[p - 1] \in Whitespace})

\* seg.get('avg_logprob', default)
GetLogprob(seg, default) ==
    IF seg.avg_logprob = Absent THEN default ELSE seg.avg_logprob[1]

\* Log-probabilities in tenths.
MissingLogprobInStats == -20
MissingLogprobInQuality == -10
EmptyAvgConfidence == -20
HighAbove == -5
MediumFrom == -10

\* Line 348: c > -0.5
IsHighConfidence(c) == c > HighAbove

\* Mutant of IsMediumConfidence: both boundaries left out of the bucket.
IsMediumConfidenceExclusive(c) == MediumFrom < c /\ c < HighAbove

\* Line 349: -1.0 <= c <= -0.5
IsMediumConfidence(c) == MediumFrom <= c /\ c <= HighAbove

\* Line 350: c < -1.0
IsLowConfidence(c) == c < MediumFrom

\* Mutant of PausesFrom: a gap that is not positive recorded as a pause of 0.
RECURSIVE PausesFromClamped(_, _)
PausesFromClamped(segs, k) ==
    IF k > Len(segs) THEN <<>>
    ELSE LET pause_duration == segs[k].start - segs[k - 1].end
         IN  <<IF pause_duration > 0 THEN pause_duration ELSE 0>>
                 \o PausesFromClamped(segs, k + 1)

\* The positive gaps between adjacent segments, in order (lines 359-363).
RECURSIVE PausesFrom(_, _)
PausesFrom(segs, k) ==
    IF k > Len(segs) THEN <<>>
    ELSE LET pause_duration == segs[k].start - segs[k - 1].end
         IN  (IF pause_duration > 0 THEN <<pause_duration>> ELSE <<>>)
                 \o PausesFrom(segs, k + 1)

Statistics(segs) ==
    LET n == Len(segs)
        total_words == SumSeq([k \in 1 .. n |-> WordCount(segs[k].text)])
        confidences == [k \in 1 .. n |-> GetLogprob(segs[k], MissingLogprobInStats)]
        segment_lengths == [k \in 1 .. n |-> segs[k].end - segs[k].start]
        pauses == PausesFrom(segs, 2)
    IN  [total_words |-> total_words,
         avg_words_per_segment |->
             IF n > 0 THEN Frac(total_words, n) ELSE Frac(0, 1),
         confidences |-> confidences,
         avg_confidence |->
             IF n > 0 THEN Frac(SumSeq(confidences), n)
             ELSE Frac(EmptyAvgConfidence, 1),
         high_confidence_segments |->
             Cardinality({k \in 1 .. n : IsHighConfidence(confidences[k])}),
         medium_confidence_segments |->
             Cardinality({k \in 1 .. n : IsMediumConfidence(confidences[k])}),
         low_confidence_segments |->
             Cardinality({k \in 1 .. n : IsLowConfidence(confidences[k])}),
         segment_lengths |-> segment_lengths,
         avg_segment_length |->
             IF n > 0 THEN Frac(SumSeq(segment_lengths), n) ELSE Frac(0, 1),
         longest_segment |-> IF n > 0 THEN SetMax(Range(segment_lengths)) ELSE 0,
         shortest_segment |-> IF n > 0 THEN SetMin(Range(segment_lengths)) ELSE 0,
         pauses |-> pauses,
         avg_pause_duration |->
             IF pauses # <<>> THEN Frac(SumSeq(pauses), Len(pauses)) ELSE Frac(0, 1),
         longest_pause |-> IF pauses # <<>> THEN SetMax(Range(pauses)) ELSE 0,
         total_pause_time |-> SumSeq(pauses)]

ComputeStatistics ==
    /\ pc = "main_statistics"
    /\ stats' = Statistics(segments)
    /\ pc' = "main_metadata"
    /\ UNCHANGED <<audio_duration, metadata, transcript_segments, error>>
    /\ UNCHANGED <<detectVars, textVars, fmtVars, outputVars>>

---------------------------------------------------------------------------
(* main: the metadata dict of lines 378-401 *)

\* avg_confidence > -0.5 is sum > -0.5 * len, the length being positive.
get_audio_quality_estimate(segs) ==
    IF segs = <<>> THEN "Unknown"
    ELSE LET total == SumSeq([k \in 1 .. Len(segs) |->
                                 GetLogprob(segs[k], MissingLogprobInQuality)])
         IN  IF total > HighAbove * Len(segs) THEN "High"
             ELSE IF total > MediumFrom * Len(segs) THEN "Medium"
             ELSE "Low"

\* round(n / d * scale-factor): the whole numbers nearest to n / d.  An exact
\* tie is rounded by the float's binary value, so both neighbours are kept.
RoundChoices(n, d) ==
    LET q == n \div d
        r == n % d
    IN  IF 2 * r < d THEN {q}
        ELSE IF 2 * r > d THEN {q + 1}
        ELSE {q, q + 1}

\* round(f * 10^k / 10^j, digits): f counted in units, the result in
\* units / scale.
Rounded(f, scale) == RoundChoices(f.num * scale, f.den)

\* The metadata values: durations in hundredths of a second, avg_confidence
\* in thousandths, percentages and avg_words_per_segment in tenths.
MetadataChoices(segs, st, dur) ==
    LET n == Len(segs)
    IN  {[duration |-> format_duration(dur),
          audio_quality |-> get_audio_quality_estimate(segs),
          total_segments |-> n,
          total_words |-> st.total_words,
          avg_words_per_segment |-> awps,
          avg_confidence |-> ac,
          high_confidence_pct |-> hp,
          medium_confidence_pct |-> mp,
          low_confidence_pct |-> lp,
          avg_segment_length |-> asl,
          longest_segment |-> st.longest_segment * 10,
          shortest_segment |-> st.shortest_segment * 10,
          total_pauses |-> Len(st.pauses),
          avg_pause_duration |-> apd,
          longest_pause |-> st.longest_pause * 10,
          total_pause_time |-> st.total_pause_time * 10,
          speech_vs_pause_ratio |-> svp] :
            awps \in Rounded(st.avg_words_per_segment, 10),
            ac \in Rounded(st.avg_confidence, 100),
            hp \in RoundChoices(st.high_confidence_segments * 1000, n),
            mp \in RoundChoices(st.medium_confidence_segments * 1000, n),
            lp \in RoundChoices(st.low_confidence_segments * 1000, n),
            asl \in Rounded(st.avg_segment_length, 10),
            apd \in Rounded(st.avg_pause_duration, 10),
            svp \in IF dur > 0
                    THEN RoundChoices((dur - st.total_pause_time) * 1000, dur)
                    ELSE {0}}

\* Line 390 divides by len(segments): with no segments the dict literal
\* raises ZeroDivisionError and main ends there.
BuildMetadataRaises ==
    /\ pc = "main_metadata"
    /\ Len(segments) = 0
    /\ error' = "ZeroDivisionError"
    /\ pc' = "main_raised"
    /\ UNCHANGED <<audio_duration, stats, metadata, transcript_segments>>
    /\ UNCHANGED <<detectVars, textVars, fmtVars, outputVars>>

BuildMetadata ==
    /\ pc = "main_metadata"
    /\ Len(segments) # 0
    /\ metadata' \in MetadataChoices(segments, stats, audio_duration)
    /\ pc' = "main_detect"
    /\ UNCHANGED <<audio_duration, stats, transcript_segments, error>>
    /\ UNCHANGED <<detectVars, textVars, fmtVars, outputVars>>

---------------------------------------------------------------------------
(* main: speaker detection and the transcript records, lines 404-417 *)

MainSilenceThreshold == 12
MainMinSpeakerTime == 40

CallDetect ==
    /\ pc = "main_detect"
    /\ silence_threshold' = MainSilenceThreshold
    /\ min_speaker_time' = MainMinSpeakerTime
    /\ pc' = "detect_call"
    /\ UNCHANGED <<segments, i, speakers, current_speaker,
                   last_speaker_change_time>>
    /\ UNCHANGED <<textVars, fmtVars, mainVars>>

\* segment.get('avg_logprob', 0)
MissingLogprobInTranscript == 0

BuildTranscript ==
    /\ pc = "detect_returned"
    /\ transcript_segments' =
           [k \in 1 .. Len(segments) |->
               [start_time |-> format_timestamp(segments[k].start),
                end_time |-> format_timestamp(segments[k].end),
                speaker |-> speakers[k],
                text |-> Strip(segments[k].text),
                confidence |-> GetLogprob(segments[k], MissingLogprobInTranscript)]]
    /\ pc' = "main_console"
    /\ UNCHANGED <<audio_duration, stats, metadata, error>>
    /\ UNCHANGED <<detectVars, textVars, fmtVars, outputVars>>

---------------------------------------------------------------------------
(* main: the three renderings of the transcript *)

\* One rendered record: the turn number shown, whether a blank line (or empty
\* paragraph) precedes it, and the record's fields with the text marked.
TurnLine(turn_number, blank_before, seg) ==
    [turn_number |-> turn_number,
     blank_before |-> blank_before,
     start_time |-> seg.start_time,
     end_time |-> seg.end_time,
     speaker |-> seg.speaker,
     text |-> add_content_markers(seg.text)]

\* Lines 429-440: the console loop from record k on.
RECURSIVE ConsoleLinesFrom(_, _, _, _)
ConsoleLinesFrom(transcript, k, cur_speaker, turn_number) ==
    IF k > Len(transcript) THEN <<>>
    ELSE LET segment == transcript[k]
             changed == cur_speaker # segment.speaker
             next_turn == IF changed THEN turn_number + 1 ELSE turn_number
         IN  <<TurnLine(next_turn, changed /\ cur_speaker # None, segment)>>
                 \o ConsoleLinesFrom(transcript, k + 1, segment.speaker, next_turn)

\* Lines 456-467: the text-file loop from record k on.
RECURSIVE FileLinesFrom(_, _, _, _)
FileLinesFrom(transcript, k, cur_speaker, turn_number) ==
    IF k > Len(transcript) THEN <<>>
    ELSE LET segment == transcript[k]
             changed == cur_speaker # segment.speaker
             next_turn == IF changed THEN turn_number + 1 ELSE turn_number
         IN  <<TurnLine(next_turn, changed /\ cur_speaker # None, segment)>>
                 \o FileLinesFrom(transcript, k + 1, segment.speaker, next_turn)

\* Lines 190-220: the Word-document loop from record k on.
RECURSIVE DocParagraphsFrom(_, _, _, _)
DocParagraphsFrom(transcript, k, cur_speaker, turn_number) ==
    IF k > Len(transcript) THEN <<>>
    ELSE LET segment == transcript[k]
             changed == cur_speaker # segment.speaker
             next_turn == IF changed THEN turn_number + 1 ELSE turn_number
         IN  <<TurnLine(next_turn, changed /\ cur_speaker # None, segment)>>
                 \o DocParagraphsFrom(transcript, k + 1, segment.speaker, next_turn)

PrintConsole ==
    /\ pc = "main_console"
    /\ console_lines' = ConsoleLinesFrom(transcript_segments, 1, None, 0)
    /\ pc' = "main_text_file"
    /\ UNCHANGED <<audio_duration, stats, metadata, transcript_segments,
                   file_lines, doc_paragraphs, doc_error, summary, error>>
    /\ UNCHANGED <<detectVars, textVars, fmtVars>>

WriteTextFile ==
    /\ pc = "main_text_file"
    /\ file_lines' = FileLinesFrom(transcript_segments, 1, None, 0)
    /\ pc' = "main_word_document"
    /\ UNCHANGED <<audio_duration, stats, metadata, transcript_segments,
                   console_lines, doc_paragraphs, doc_error, summary, error>>
    /\ UNCHANGED <<detectVars, textVars, fmtVars>>

\* str.split(':')
RECURSIVE SplitColon(_)
SplitColon(str) ==
    IF \A p \in 1 .. Len(str) : str[p] # ":" THEN <<str>>
    ELSE LET c == CHOOSE p \in 1 .. Len(str) :
                      str[p] = ":" /\ \A q \in 1 .. (p - 1) : str[q] # ":"
         IN  <<SubSeq(str, 1, c - 1)>> \o SplitColon(SubSeq(str, c + 1, Len(str)))

\* int(str) / float(str) of a string of decimal digits.
RECURSIVE ParseNumber(_)
ParseNumber(str) ==
    IF str = <<>> THEN 0
    ELSE 10 * ParseNumber(SubSeq(str, 1, Len(str) - 1))
             + ((CHOOSE d \in 1 .. 10 : DigitChars[d] = str[Len(str)]) - 1)

\* Line 172: float(parts[0]) * 60 + float(parts[1]), the divisor of the
\* document's speech rate.
DocSpeechRateDivisor(duration_text) ==
    LET parts == SplitColon(duration_text)
    IN  ParseNumber(parts[1]) * 60 + ParseNumber(parts[2])

\* create_academic_word_document divides by the divisor above while it builds
\* the statistics table, before the transcript loop; the ZeroDivisionError is
\* caught by main (lines 472-478) and no document is saved.
CreateWordDocumentRaises ==
    /\ pc = "main_word_document"
    /\ DocSpeechRateDivisor(metadata.duration) = 0
    /\ doc_error' = "ZeroDivisionError"
    /\ pc' = "main_summary"
    /\ UNCHANGED <<audio_duration, stats, metadata, transcript_segments,
                   console_lines, file_lines, doc_paragraphs, summary, error>>
    /\ UNCHANGED <<detectVars, textVars, fmtVars>>

CreateWordDocument ==
    /\ pc = "main_word_document"
    /\ DocSpeechRateDivisor(metadata.duration) # 0
    /\ doc_paragraphs' = DocParagraphsFrom(transcript_segments, 1, None, 0)
    /\ pc' = "main_summary"
    /\ UNCHANGED <<audio_duration, stats, metadata, transcript_segments,
                   console_lines, file_lines, doc_error, summary, error>>
    /\ UNCHANGED <<detectVars, textVars, fmtVars>>

---------------------------------------------------------------------------
(* main: the summary of lines 480-521 *)

\* The keys of speaker_counts in insertion order.
RECURSIVE SpeakersInOrder(_, _)
SpeakersInOrder(transcript, k) ==
    IF k > Len(transcript) THEN <<>>
    ELSE (IF \E j \in 1 .. (k - 1) : transcript[j].speaker = transcript[k].speaker
          THEN <<>> ELSE <<transcript[k].speaker>>)
             \o SpeakersInOrder(transcript, k + 1)

SpeakerCount(transcript, speaker) ==
    Cardinality({k \in 1 .. Len(transcript) : transcript[k].speaker = speaker})

SpeakerWordCount(transcript, speaker) ==
    SumSeq([k \in 1 .. Len(transcript) |->
               IF transcript[k].speaker = speaker
               THEN WordCount(transcript[k].text) ELSE 0])

\* Lines 493-495: words per minute, 0 when the duration shows no minutes.
SpeechRate(meta) ==
    LET duration_parts == SplitColon(meta.duration)
        sixtieths == ParseNumber(duration_parts[1]) * 60
                         + ParseNumber(duration_parts[2])
    IN  IF sixtieths > 0 THEN Frac(meta.total_words * 60, sixtieths)
        ELSE Frac(0, 1)

\* Lines 498-509 when no division fails: per speaker, in insertion order, the
\* turn count and percentage and the word count and percentage.
SummaryFor(transcript, meta) ==
    LET order == SpeakersInOrder(transcript, 1)
    IN  [speech_rate |-> SpeechRate(meta),
         lines |->
             [k \in 1 .. Len(order) |->
                 [speaker |-> order[k],
                  count |-> SpeakerCount(transcript, order[k]),
                  percentage |->
                      Frac(SpeakerCount(transcript, order[k]) * 100, Len(transcript)),
                  words |-> SpeakerWordCount(transcript, order[k]),
                  word_percentage |->
                      Frac(SpeakerWordCount(transcript, order[k]) * 100,
                           meta.total_words)]]]

\* Line 508 divides by metadata['total_words'] for the first speaker.
PrintSummaryRaises ==
    /\ pc = "main_summary"
    /\ Len(transcript_segments) > 0
    /\ metadata.total_words = 0
    /\ error' = "ZeroDivisionError"
    /\ pc' = "main_raised"
    /\ UNCHANGED <<audio_duration, stats, metadata, transcript_segments,
                   console_lines, file_lines, doc_paragraphs, doc_error, summary>>
    /\ UNCHANGED <<detectVars, textVars, fmtVars>>

PrintSummary ==
    /\ pc = "main_summary"
    /\ Len(transcript_segments) = 0 \/ metadata.total_words # 0
    /\ summary' = SummaryFor(transcript_segments, metadata)
    /\ pc' = "main_done"
    /\ UNCHANGED <<audio_duration, stats, metadata, transcript_segments,
                   console_lines, file_lines, doc_paragraphs, doc_error, error>>
    /\ UNCHANGED <<detectVars, textVars, fmtVars>>

---------------------------------------------------------------------------
(* main on a transcription result *)

\* Times in tenths of a second.
MainTimes == {0, 30, 50, 100}

DefaultText == <<" ", "a", "b", " ", "c">>
DefaultLogprob == Present(-3)

MainTexts == {<<>>, <<" ">>, <<"a">>, DefaultText}

MainLogprobs == {Absent, Present(0), Present(-5), Present(-10), Present(-15)}

\* Segments that differ in their times only.
TimedSegments ==
    {g \in {Seg(s, e, DefaultText, DefaultLogprob) :
                s \in MainTimes, e \in MainTimes} : g.start <= g.end}

\* The k-th segment of a sequence whose texts or scores vary: 2 s long, 4 s
\* after the one before, so that the speaker flips at every segment.
SpacedSegment(k, t, c) == Seg(60 * (k - 1), 60 * (k - 1) + 20, t, c)

SpacedSequences(texts, logprobs) ==
    {[k \in 1 .. Len(q) |-> SpacedSegment(k, q[k][1], q[k][2])] :
        q \in SeqsUpTo(texts \X logprobs, MaxSegs)}

AudioDurations == {0, 950}

MainInputs ==
    SeqsUpTo(TimedSegments, MaxSegs)
        \cup SpacedSequences(MainTexts, {DefaultLogprob})
        \cup SpacedSequences({DefaultText}, MainLogprobs)

Init ==
    /\ pc = "main_statistics"
    /\ segments \in MainInputs
    /\ audio_duration \in AudioDurations
    /\ silence_threshold = None
    /\ min_speaker_time = None
    /\ i = 0
    /\ speakers = <<>>
    /\ current_speaker = None
    /\ last_speaker_change_time = None
    /\ stats = None
    /\ metadata = None
    /\ transcript_segments = None
    /\ console_lines = <<>>
    /\ file_lines = <<>>
    /\ doc_paragraphs = <<>>
    /\ doc_error = None
    /\ summary = None
    /\ error = None
    /\ IdleText
    /\ IdleFmt

Next ==
    \/ ComputeStatistics
    \/ BuildMetadataRaises
    \/ BuildMetadata
    \/ CallDetect
    \/ DetectEnter
    \/ DetectFirst
    \/ DetectNext
    \/ DetectReturn
    \/ BuildTranscript
    \/ PrintConsole
    \/ WriteTextFile
    \/ CreateWordDocumentRaises
    \/ CreateWordDocument
    \/ PrintSummaryRaises
    \/ PrintSummary

Spec == Init /\ [][Next]_vars

---------------------------------------------------------------------------
(* Properties of the statistics of main *)

\* main has evaluated (or failed to evaluate) the metadata dict.
PastMetadata == pc \notin {"main_statistics", "main_metadata"}

\* C3: with no segments the statistics are computed without a division by
\* zero, every percentage and average of the record is 0, and audio_quality
\* is "Unknown".
C3_EmptyInputGivesNeutralStatistics ==
    PastMetadata /\ Len(segments) = 0 =>
        /\ error = None
        /\ metadata.audio_quality = "Unknown"
        /\ metadata.avg_words_per_segment = 0
        /\ metadata.avg_confidence = 0
        /\ metadata.high_confidence_pct = 0
        /\ metadata.medium_confidence_pct = 0
        /\ metadata.low_confidence_pct = 0
        /\ metadata.avg_segment_length = 0
        /\ metadata.avg_pause_duration = 0
        /\ metadata.speech_vs_pause_ratio = 0

\* C4: the per-speaker turn and word percentages are computed without a
\* division by zero for every labelled segment sequence, and the word
\* percentage is 0 when total_words is 0.
C4_SpeakerPercentagesNeverDivideByZero ==
    pc \in {"main_raised", "main_done"} /\ Len(segments) > 0 =>
        /\ error = None
        /\ \A k \in 1 .. Len(summary.lines) :
               /\ summary.lines[k].percentage.den > 0
               /\ summary.lines[k].word_percentage.den > 0
               /\ metadata.total_words = 0 =>
                      summary.lines[k].word_percentage.num = 0

\* The log-probability of segment k with an absent one counted as -2,
\* in tenths.
LogprobOrMinusTwo(k) ==
    IF segments[k].avg_logprob = Absent THEN -20 ELSE segments[k].avg_logprob[1]

\* C5: an absent confidence counts as -2 in the average confidence, in the
\* bucket counts and in audio_quality alike: audio_quality is High, Medium
\* or Low exactly when the reported average confidence is > -0.5, > -1.0
\* (and not > -0.5), or <= -1.0.
C5_AbsentConfidenceIsMinusTwoEverywhere ==
    PastMetadata /\ Len(segments) > 0 =>
        LET n == Len(segments)
            total == SumSeq([k \in 1 .. n |-> LogprobOrMinusTwo(k)])
        IN  /\ metadata.avg_confidence \in RoundChoices(total * 100, n)
            /\ stats.high_confidence_segments =
                   Cardinality({k \in 1 .. n : LogprobOrMinusTwo(k) > -5})
            /\ stats.low_confidence_segments =
                   Cardinality({k \in 1 .. n : LogprobOrMinusTwo(k) < -10})
            /\ stats.medium_confidence_segments =
                   Cardinality({k \in 1 .. n : LogprobOrMinusTwo(k) \in -10 .. -5})
            /\ metadata.audio_quality =
                   IF metadata.avg_confidence > -500 THEN "High"
                   ELSE IF metadata.avg_confidence > -1000 THEN "Medium"
                   ELSE "Low"

---------------------------------------------------------------------------
(* Properties of the transcript and its renderings *)

\* main is past the three renderers with a transcript to render.
AfterRenderers ==
    /\ Len(segments) > 0
    /\ pc \in {"main_summary", "main_done", "main_raised"}

\* Record k of the transcript is segment k with its label.
RecordOfSegment(k) ==
    /\ transcript_segments[k].start_time = format_timestamp(segments[k].start)
    /\ transcript_segments[k].end_time = format_timestamp(segments[k].end)
    /\ transcript_segments[k].speaker = speakers[k]
    /\ transcript_segments[k].text = Strip(segments[k].text)

\* A rendering shows every record once, in order, unmerged, and numbers the
\* turns: 1 on the first record, one more at each record whose speaker differs
\* from the record before, the same otherwise; odd numbers are INTERVIEWER's
\* and even numbers PARTICIPANT's.
TurnsNumbered(lines) ==
    /\ Len(lines) = Len(transcript_segments)
    /\ \A k \in 1 .. Len(lines) :
           /\ lines[k].start_time = transcript_segments[k].start_time
           /\ lines[k].end_time = transcript_segments[k].end_time
           /\ lines[k].speaker = transcript_segments[k].speaker
           /\ lines[k].text = add_content_markers(transcript_segments[k].text)
           /\ lines[k].turn_number =
                  IF k = 1 THEN 1
                  ELSE IF lines[k].speaker # lines[k - 1].speaker
                       THEN lines[k - 1].turn_number + 1
                       ELSE lines[k - 1].turn_number
           /\ lines[k].turn_number % 2 = 1 <=> lines[k].speaker = INTERVIEWER
           /\ lines[k].turn_number % 2 = 0 <=> lines[k].speaker = PARTICIPANT

\* C11: the transcript has one record per input segment, in input order,
\* unmerged; the displayed turn number starts at 1, grows by exactly 1 at each
\* record whose speaker differs from the record before and never otherwise,
\* odd numbers belong to INTERVIEWER and even ones to PARTICIPANT; and the
\* console, the text file and the Word document give every record the same
\* turn number.
C11_OneRecordPerSegmentSameTurnNumbers ==
    AfterRenderers =>
        /\ Len(transcript_segments) = Len(segments)
        /\ \A k \in 1 .. Len(segments) : RecordOfSegment(k)
        /\ TurnsNumbered(console_lines)
        /\ TurnsNumbered(file_lines)
        /\ TurnsNumbered(doc_paragraphs)
        /\ \A k \in 1 .. Len(segments) :
               /\ console_lines[k].turn_number = file_lines[k].turn_number
               /\ console_lines[k].turn_number = doc_paragraphs[k].turn_number

---------------------------------------------------------------------------
(* Properties of the pause statistics *)

\* The statistics of lines 338-367 have been computed.
PastStatistics == pc # "main_statistics"

\* The gap between segment k and the segment before it.
PauseGap(k) == segments[k].start - segments[k - 1].end

\* The adjacent pairs, named by their second segment, whose gap is positive.
PositiveGapPairs == {k \in 2 .. Len(segments) : PauseGap(k) > 0}

\* C12: the pause list holds start[i] - end[i-1] for exactly the adjacent
\* pairs where it is strictly positive, in order; zero and negative gaps are
\* left out, not clamped to 0: total_pauses is the number of positive gaps,
\* total_pause_time their sum, every recorded pause is > 0, and with no
\* positive gap the average and the longest pause are 0.
C12_PausesAreThePositiveGaps ==
    PastStatistics =>
        /\ Len(stats.pauses) = Cardinality(PositiveGapPairs)
        /\ \A k \in PositiveGapPairs :
               stats.pauses[Cardinality({j \in PositiveGapPairs : j <= k})]
                   = PauseGap(k)
        /\ \A j \in 1 .. Len(stats.pauses) : stats.pauses[j] > 0
        /\ stats.total_pause_time =
               SumSeq([k \in 1 .. Len(segments) |->
                          IF k \in PositiveGapPairs THEN PauseGap(k) ELSE 0])
        /\ PositiveGapPairs = {} =>
               /\ stats.avg_pause_duration.num = 0
               /\ stats.longest_pause = 0
        /\ PastMetadata /\ Len(segments) > 0 =>
               /\ metadata.total_pauses = Cardinality(PositiveGapPairs)
               /\ metadata.total_pause_time = 10 * stats.total_pause_time
               /\ PositiveGapPairs = {} =>
                      /\ metadata.avg_pause_duration = 0
                      /\ metadata.longest_pause = 0

\* Three segments with a positive gap after a zero gap, and the statistics
\* reported.
C12_Witness ==
    /\ PastMetadata
    /\ Len(segments) = 3
    /\ PauseGap(2) = 0
    /\ PauseGap(3) > 0
    /\ Len(stats.pauses) = 1
    /\ metadata.total_pauses = 1

---------------------------------------------------------------------------
(* Properties of the confidence buckets *)

\* The bucket of a confidence in tenths: high > -0.5, medium in [-1.0, -0.5],
\* low < -1.0.
BucketOf(c) ==
    IF c > -5 THEN "high"
    ELSE IF c >= -10 THEN "medium"
    ELSE "low"

SegmentsInBucket(b) ==
    {k \in 1 .. Len(segments) : BucketOf(LogprobOrMinusTwo(k)) = b}

\* C13: the three bucket counts partition the segments with the boundaries
\* high > -0.5, medium in [-1.0, -0.5], low < -1.0, an absent confidence
\* counting as -2: every segment is counted in exactly one bucket, -0.5 and
\* -1.0 in medium, and high + medium + low is the number of segments.
C13_BucketsPartitionSegments ==
    PastStatistics =>
        /\ stats.high_confidence_segments = Cardinality(SegmentsInBucket("high"))
        /\ stats.medium_confidence_segments =
               Cardinality(SegmentsInBucket("medium"))
        /\ stats.low_confidence_segments = Cardinality(SegmentsInBucket("low"))
        /\ stats.high_confidence_segments + stats.medium_confidence_segments
               + stats.low_confidence_segments = Len(segments)
        /\ \A k \in 1 .. Len(segments) :
               LET c == stats.confidences[k]
               IN  Cardinality({b \in {"high", "medium", "low"} :
                       \/ b = "high" /\ IsHighConfidence(c)
                       \/ b = "medium" /\ IsMediumConfidence(c)
                       \/ b = "low" /\ IsLowConfidence(c)}) = 1

\* Confidences of exactly -0.5 and exactly -1.0 and an absent one: two medium
\* segments and one low.
C13_Witness ==
    /\ PastStatistics
    /\ Len(segments) = 3
    /\ segments[1].avg_logprob = Present(-5)
    /\ segments[2].avg_logprob = Present(-10)
    /\ segments[3].avg_logprob = Absent
    /\ stats.medium_confidence_segments = 2
    /\ stats.low_confidence_segments = 1
    /\ stats.high_confidence_segments = 0

===========================================================================
